---- MODULE Spec2Model ----
(***************************************************************************)
(* Model of hota_metrics/datasets/_base_dataset.py (_BaseDataset):         *)
(*   _load_simple_text_file, get_raw_seq_data, _calculate_box_ious and     *)
(*   _check_unique_ids.                                                    *)
(*                                                                         *)
(* Encoding conventions                                                    *)
(*   - a csv row is a sequence of cells; a cell is a string token;         *)
(*     Python column c is element c+1 of the sequence;                     *)
(*   - a value that is not a Python str (an int produced by a              *)
(*     convert_filter table) is a token of the set NonStr;                 *)
(*   - a dict whose iteration order matters (the three filters) is a       *)
(*     sequence of entries in insertion order;                             *)
(*   - an optional argument is a sequence of length 0 (None) or 1;         *)
(*   - a list that holds list objects (a bucket) holds references: the     *)
(*     index of the row object in heap.                                    *)
(***************************************************************************)
EXTENDS Integers, Sequences, FiniteSets, TLC

VARIABLES
    \* ---- _load_simple_text_file ----
    pc,                 \* position of the call
    args,               \* the call's arguments
    orig,               \* rows as yielded by csv.reader, in order (history)
    heap,               \* the row objects, as mutated in place by the call
    nconv,              \* per row object: completed runs of a convert loop (history)
    read_data,          \* dict timestep -> list of row references
    crowd_ignore_data,  \* dict timestep -> list of row references
    fp,                 \* the text handle: "none", "open" or "closed"
    archive,            \* the ZipFile handle: "none", "open" or "closed"
    exc,                \* exception the call ended with, "none" otherwise
    \* ---- get_raw_seq_data ----
    spc,                \* position of the call
    raw_gt_data,        \* <<>> or <<the dict _load_raw_file(is_gt=True) returned>>
    raw_tracker_data,   \* <<>> or <<the dict _load_raw_file(is_gt=False) returned>>
    raw_data,           \* <<>> or <<the merged dict>>
    similarity_scores,  \* the list built by the loop
    calls,              \* the _calculate_similarities calls made, in order (history)
    sexc,               \* exception the call ended with, "none" otherwise
    \* ---- _calculate_box_ious ----
    ipc,                \* position of the call
    iargs,              \* the call's arguments
    ious,               \* the returned matrix
    iexc,               \* exception the call ended with, "none" otherwise
    \* ---- _check_unique_ids ----
    cpc,                \* position of the call
    data,               \* the call's argument
    t,                  \* the loop's timestep
    cexc                \* <<>> or <<the exception raised: which stream, which time>>

loadVars == <<pc, args, orig, heap, nconv, read_data, crowd_ignore_data, fp, archive, exc>>
seqVars == <<spc, raw_gt_data, raw_tracker_data, raw_data, similarity_scores, calls, sexc>>
iouVars == <<ipc, iargs, ious, iexc>>
idVars == <<cpc, data, t, cexc>>

vars == <<loadVars, seqVars, iouVars, idVars>>

-----------------------------------------------------------------------------
(* Bounds *)

MaxRows == 2            \* rows the reader yields in one call

-----------------------------------------------------------------------------
(* Cells, rows and str methods *)

NonStr == {"#1", "#2"}          \* int values of a convert_filter table

IsStr(v) == v \notin NonStr

\* str.lower()
Lower(s) ==
    CASE s = "Car" -> "car"
      [] s = "Crowd" -> "crowd"
      [] OTHER -> s

\* float(s), in tenths; <<>> when float() raises ValueError
FloatTenths(s) ==
    CASE s = "1" -> <<10>>
      [] s = "2" -> <<20>>
      [] s = "-1" -> <<-10>>
      [] s = "-0.5" -> <<-5>>
      [] s = "0.5" -> <<5>>
      [] OTHER -> <<>>

\* int(x) of a float given in tenths: truncation toward zero
IntOfFloat(x10) == IF x10 >= 0 THEN x10 \div 10 ELSE -((-x10) \div 10)

HasCol(row, c) == c + 1 \in 1..Len(row)

Cell(row, c) == row[c + 1]

TimeTokens == {"0", "1"}
IdTokens == {"1", "-1", "-0.5"}
ClassTokens == {"Car", "crowd"}

\* rows csv.reader can yield
Rows ==
    { <<tm, id, cl>> : tm \in TimeTokens, id \in IdTokens, cl \in ClassTokens }
    \cup { <<>>,                        \* blank line
           <<"0">>,                     \* row without id and class columns
           <<"1", "x", "Car">>,         \* non-numeric id
           <<"1", "2", "Crowd", "">> }  \* trailing delimiter

-----------------------------------------------------------------------------
(* Arguments *)

DefaultTimeCol == 0

Entry(c, s) == [col |-> c, allow |-> s]

ValidFilters ==
    { <<>>,                                             \* None
      <<Entry(1, {"1", "-1"}), Entry(2, {"car"})>> }

CrowdIgnoreFilters ==
    { <<>>,                                             \* None -> {}
      <<Entry(2, {"crowd"})>>,
      <<Entry(2, {"crowd"}), Entry(1, {"-1"})>> }

ConvEntry(c, m) == [col |-> c, map |-> m]

ConvertFilters ==
    { <<>>,                                             \* None -> {}
      <<ConvEntry(2, ("car" :> "#1") @@ ("crowd" :> "#2"))>>,
      <<ConvEntry(2, ("crowd" :> "ign") @@ ("ign" :> "ign"))>> }

ArgSets ==
    [ time_col : {DefaultTimeCol},
      id_col : {<<>>, <<1>>},
      remove_negative_ids : BOOLEAN,
      valid_filter : ValidFilters,
      crowd_ignore_filter : CrowdIgnoreFilters,
      convert_filter : ConvertFilters,
      is_zipped : BOOLEAN,
      zip_file : {<<>>, <<"data.zip">>} ]

-----------------------------------------------------------------------------
(* _load_simple_text_file: the body of `for row in reader` *)

\* line 148-149: strip one trailing empty field; <<>> when row[-1] raises IndexError
StripTrailing(row) ==
    IF Len(row) = 0 THEN <<>>
    ELSE IF row[Len(row)] = "" THEN <<SubSeq(row, 1, Len(row) - 1)>>
    ELSE <<row>>

\* lines 156-157 and 175-176: the convert loop, in place, from entry k on
RECURSIVE ConvertFrom(_, _, _)
ConvertFrom(row, cf, k) ==
    IF k > Len(cf) THEN [exc |-> "none", row |-> row]
    ELSE LET c == cf[k].col
             m == cf[k].map
         IN IF ~HasCol(row, c) THEN [exc |-> "IndexError", row |-> row]
            ELSE IF ~IsStr(Cell(row, c)) THEN [exc |-> "AttributeError", row |-> row]
            ELSE IF Lower(Cell(row, c)) \notin DOMAIN m THEN [exc |-> "KeyError", row |-> row]
            ELSE ConvertFrom([row EXCEPT ![c + 1] = m[Lower(Cell(row, c))]], cf, k + 1)

Convert(row, cf) == ConvertFrom(row, cf, 1)

\* lines 159-162 and 178-181: save the row object under its timestep
Save(bucket, timestep, ref) ==
    IF timestep \in DOMAIN bucket
    THEN [bucket EXCEPT ![timestep] = Append(@, ref)]
    ELSE bucket @@ (timestep :> <<ref>>)

\* line 154: the row matches one crowd_ignore_filter entry
IgnoreMatch(row, e) == Lower(Cell(row, e.col)) \in e.allow

\* lines 152-163: the loop over crowd_ignore_filter, from entry k on.
\* st = [exc, row, ign, is_ignored, nconv]
RECURSIVE IgnoreFrom(_, _, _, _, _, _)
IgnoreFrom(st, cif, cf, timestep, ref, k) ==
    IF k > Len(cif) \/ st.exc # "none" THEN st
    ELSE LET e == cif[k] IN
         IF ~HasCol(st.row, e.col) THEN [st EXCEPT !.exc = "IndexError"]
         ELSE IF ~IsStr(Cell(st.row, e.col)) THEN [st EXCEPT !.exc = "AttributeError"]
         ELSE IF IgnoreMatch(st.row, e)
              THEN LET cv == Convert(st.row, cf) IN
                   IF cv.exc # "none"
                   THEN [st EXCEPT !.exc = cv.exc, !.row = cv.row]
                   ELSE IgnoreFrom([exc |-> "none",
                                    row |-> cv.row,
                                    ign |-> Save(st.ign, timestep, ref),
                                    is_ignored |-> TRUE,
                                    nconv |-> st.nconv + 1],
                                   cif, cf, timestep, ref, k + 1)
              ELSE IgnoreFrom(st, cif, cf, timestep, ref, k + 1)

\* lines 164-165: a det that is an ignore region cannot be a normal det
SkipIgnoredNever(is_ignored) == FALSE

SkipIgnored(is_ignored) == is_ignored

\* lines 167-170: the loop over valid_filter. Its `continue` (line 170) is the
\* continue of this inner for loop, so the loop skips no row: all it can do is
\* raise on a missing column.
RECURSIVE ValidFrom(_, _, _)
ValidFrom(row, vf, k) ==
    IF k > Len(vf) THEN [exc |-> "none", skip |-> FALSE]
    ELSE IF ~HasCol(row, vf[k].col) THEN [exc |-> "IndexError", skip |-> FALSE]
    ELSE ValidFrom(row, vf, k + 1)

ValidLoop(row, vf) == ValidFrom(row, vf, 1)

\* lines 171-173: remove_negative_ids
NegativeId(row, a) ==
    IF ~a.remove_negative_ids THEN [exc |-> "none", skip |-> FALSE]
    ELSE IF ~HasCol(row, a.id_col[1]) THEN [exc |-> "IndexError", skip |-> FALSE]
    ELSE LET f == FloatTenths(Cell(row, a.id_col[1])) IN
         IF f = <<>> THEN [exc |-> "ValueError", skip |-> FALSE]
         ELSE [exc |-> "none", skip |-> IntOfFloat(f[1]) < 0]

\* the rest of the body for a row that is no ignore region (lines 164-181)
NormalPart(st, a, rd, timestep, ref) ==
    LET v == ValidLoop(st.row, a.valid_filter)
        n == NegativeId(st.row, a)
        cv == Convert(st.row, a.convert_filter)
        out(e, r, d, c) == [exc |-> e, row |-> r, ign |-> st.ign, rd |-> d, nconv |-> c]
    IN IF v.exc # "none" THEN out(v.exc, st.row, rd, 0)
       ELSE IF v.skip THEN out("none", st.row, rd, 0)
       ELSE IF n.exc # "none" THEN out(n.exc, st.row, rd, 0)
       ELSE IF n.skip THEN out("none", st.row, rd, 0)
       ELSE IF cv.exc # "none" THEN out(cv.exc, cv.row, rd, 0)
       ELSE out("none", cv.row, Save(rd, timestep, ref), 1)

\* lines 147-181: one iteration of the loop, for the row object ref read as raw
RowBody(raw, a, rd, ign, ref) ==
    LET s == StripTrailing(raw)
        fail(e, r) == [exc |-> e, row |-> r, ign |-> ign, rd |-> rd, nconv |-> 0]
    IN IF s = <<>> THEN fail("IndexError", raw)
       ELSE IF ~HasCol(s[1], a.time_col) THEN fail("IndexError", s[1])
       ELSE LET timestep == Cell(s[1], a.time_col)
                st == IgnoreFrom([exc |-> "none", row |-> s[1], ign |-> ign,
                                  is_ignored |-> FALSE, nconv |-> 0],
                                 a.crowd_ignore_filter, a.convert_filter, timestep, ref, 1)
            IN IF st.exc # "none"
               THEN [exc |-> st.exc, row |-> st.row, ign |-> st.ign, rd |-> rd, nconv |-> st.nconv]
               ELSE IF SkipIgnored(st.is_ignored)
               THEN [exc |-> "none", row |-> st.row, ign |-> st.ign, rd |-> rd, nconv |-> st.nconv]
               ELSE NormalPart(st, a, rd, timestep, ref)

-----------------------------------------------------------------------------
(* _load_simple_text_file: the call *)

EmptyDict == [x \in {} |-> <<>>]

\* no call of the operation is in progress
LoadIdle ==
    /\ pc = "idle"
    /\ args = <<>>
    /\ orig = <<>>
    /\ heap = <<>>
    /\ nconv = <<>>
    /\ read_data = EmptyDict
    /\ crowd_ignore_data = EmptyDict
    /\ fp = "none"
    /\ archive = "none"
    /\ exc = "none"

SeqIdle ==
    /\ spc = "idle"
    /\ raw_gt_data = <<>>
    /\ raw_tracker_data = <<>>
    /\ raw_data = <<>>
    /\ similarity_scores = <<>>
    /\ calls = <<>>
    /\ sexc = "none"

IouIdle ==
    /\ ipc = "idle"
    /\ iargs = <<>>
    /\ ious = <<>>
    /\ iexc = "none"

IdsIdle ==
    /\ cpc = "idle"
    /\ data = <<>>
    /\ t = 0
    /\ cexc = <<>>

LoadInit ==
    /\ pc = "call"
    /\ args \in ArgSets
    /\ orig = <<>>
    /\ heap = <<>>
    /\ nconv = <<>>
    /\ read_data = EmptyDict
    /\ crowd_ignore_data = EmptyDict
    /\ fp = "none"
    /\ archive = "none"
    /\ exc = "none"

Raise(e) ==
    /\ pc' = "raised"
    /\ exc' = e

\* lines 127-128
RaiseNoIdCol ==
    /\ pc = "call"
    /\ args.remove_negative_ids /\ args.id_col = <<>>
    /\ Raise("Exception")
    /\ UNCHANGED <<args, orig, heap, nconv, read_data, crowd_ignore_data, fp, archive>>
    /\ UNCHANGED <<seqVars, iouVars, idVars>>

ArgsOk == ~(args.remove_negative_ids /\ args.id_col = <<>>)

\* lines 133-135
RaiseNoZipFile ==
    /\ pc = "call"
    /\ ArgsOk
    /\ args.is_zipped /\ args.zip_file = <<>>
    /\ Raise("Exception")
    /\ UNCHANGED <<args, orig, heap, nconv, read_data, crowd_ignore_data, fp, archive>>
    /\ UNCHANGED <<seqVars, iouVars, idVars>>

\* lines 136-137
OpenZipped ==
    /\ pc = "call"
    /\ ArgsOk
    /\ args.is_zipped /\ args.zip_file # <<>>
    /\ archive' = "open"
    /\ fp' = "open"
    /\ pc' = "opened"
    /\ UNCHANGED <<args, orig, heap, nconv, read_data, crowd_ignore_data, exc>>
    /\ UNCHANGED <<seqVars, iouVars, idVars>>

\* line 139
OpenPlain ==
    /\ pc = "call"
    /\ ArgsOk
    /\ ~args.is_zipped
    /\ fp' = "open"
    /\ pc' = "opened"
    /\ UNCHANGED <<args, orig, heap, nconv, read_data, crowd_ignore_data, archive, exc>>
    /\ UNCHANGED <<seqVars, iouVars, idVars>>

\* lines 140-145: the dialect is detected
Sniff ==
    /\ pc = "opened"
    /\ pc' = "loop"
    /\ UNCHANGED <<args, orig, heap, nconv, read_data, crowd_ignore_data, fp, archive, exc>>
    /\ UNCHANGED <<seqVars, iouVars, idVars>>

\* line 140: csv.Sniffer().sniff raises csv.Error
SniffFails ==
    /\ pc = "opened"
    /\ Raise("csv.Error")
    /\ UNCHANGED <<args, orig, heap, nconv, read_data, crowd_ignore_data, fp, archive>>
    /\ UNCHANGED <<seqVars, iouVars, idVars>>

\* lines 146-181: the reader yields raw and the body runs on it
ReadRow(raw) ==
    /\ pc = "loop"
    /\ Len(orig) < MaxRows
    /\ LET ref == Len(orig) + 1
           r == RowBody(raw, args, read_data, crowd_ignore_data, ref)
       IN /\ orig' = Append(orig, raw)
          /\ heap' = Append(heap, r.row)
          /\ nconv' = Append(nconv, r.nconv)
          /\ read_data' = r.rd
          /\ crowd_ignore_data' = r.ign
          /\ exc' = r.exc
          /\ pc' = IF r.exc = "none" THEN "loop" ELSE "raised"
    /\ UNCHANGED <<args, fp, archive>>
    /\ UNCHANGED <<seqVars, iouVars, idVars>>

\* line 136: the ZipFile is bound to the local `archive` alone and the function
\* never calls archive.close(). When the function returns, the object is left
\* to the interpreter: reference counting closes it at once, a tracing
\* collector leaves it open.
ArchiveAfterReturn(a) == IF a = "open" THEN {"open", "closed"} ELSE {a}

\* lines 182-183: the reader is exhausted
Return ==
    /\ pc = "loop"
    /\ fp' = "closed"
    /\ archive' \in ArchiveAfterReturn(archive)
    /\ pc' = "returned"
    /\ UNCHANGED <<args, orig, heap, nconv, read_data, crowd_ignore_data, exc>>
    /\ UNCHANGED <<seqVars, iouVars, idVars>>

LoadNext ==
    \/ RaiseNoIdCol
    \/ RaiseNoZipFile
    \/ OpenZipped
    \/ OpenPlain
    \/ Sniff
    \/ SniffFails
    \/ \E raw \in Rows : ReadRow(raw)
    \/ Return

Init == LoadInit /\ SeqIdle /\ IouIdle /\ IdsIdle

Next == LoadNext

Spec == Init /\ [][Next]_vars

-----------------------------------------------------------------------------
(* get_raw_seq_data *)

MaxT == 3               \* timesteps of a sequence

SeqNames == {"seq-a", "seq-b"}

DetLists == {"dets-0", "dets-1"}        \* one timestep's list of detections, opaque

Matrices == {"sim-0", "sim-1"}          \* a similarity matrix, opaque

\* what _load_raw_file(tracker, seq, is_gt=True) can return: num_timesteps, seq
\* and a list (for each timestep) of lists of detections
GtLoads ==
    UNION { [ num_timesteps : {n}, seq : SeqNames, gt_dets : [1..n -> DetLists] ] : n \in 0..MaxT }

\* what _load_raw_file(tracker, seq, is_gt=False) can return
TrackerLoads ==
    UNION { [ num_timesteps : {n}, seq : SeqNames, tracker_dets : [1..n -> DetLists] ] : n \in 0..MaxT }

\* line 82: {**first, **second}, the second dict wins a key both have
MergeDictsFirstWins(first, second) == first @@ second

MergeDicts(first, second) == second @@ first

\* line 86: zip stops at the shorter list
ZipLen(xs, ys) == IF Len(xs) <= Len(ys) THEN Len(xs) ELSE Len(ys)

\* line 88: similarity_scores.append(ious)
AppendScoreInFront(scores, m) == <<m>> \o scores

AppendScore(scores, m) == Append(scores, m)

SeqInit ==
    /\ spc = "call"
    /\ raw_gt_data = <<>>
    /\ raw_tracker_data = <<>>
    /\ raw_data = <<>>
    /\ similarity_scores = <<>>
    /\ calls = <<>>
    /\ sexc = "none"

SeqRaise(e) ==
    /\ spc' = "raised"
    /\ sexc' = e

\* line 80
LoadGt(r) ==
    /\ spc = "call"
    /\ raw_gt_data' = <<r>>
    /\ spc' = "gt_loaded"
    /\ UNCHANGED <<raw_tracker_data, raw_data, similarity_scores, calls, sexc>>
    /\ UNCHANGED <<loadVars, iouVars, idVars>>

\* line 80: the abstract call raises
LoadGtRaises ==
    /\ spc = "call"
    /\ SeqRaise("load_raw_file")
    /\ UNCHANGED <<raw_gt_data, raw_tracker_data, raw_data, similarity_scores, calls>>
    /\ UNCHANGED <<loadVars, iouVars, idVars>>

\* line 81
LoadTracker(r) ==
    /\ spc = "gt_loaded"
    /\ raw_tracker_data' = <<r>>
    /\ spc' = "tracker_loaded"
    /\ UNCHANGED <<raw_gt_data, raw_data, similarity_scores, calls, sexc>>
    /\ UNCHANGED <<loadVars, iouVars, idVars>>

\* line 81: the abstract call raises
LoadTrackerRaises ==
    /\ spc = "gt_loaded"
    /\ SeqRaise("load_raw_file")
    /\ UNCHANGED <<raw_gt_data, raw_tracker_data, raw_data, similarity_scores, calls>>
    /\ UNCHANGED <<loadVars, iouVars, idVars>>

\* lines 82-85
Merge ==
    /\ spc = "tracker_loaded"
    /\ raw_data' = <<MergeDicts(raw_tracker_data[1], raw_gt_data[1])>>
    /\ similarity_scores' = <<>>
    /\ spc' = "loop"
    /\ UNCHANGED <<raw_gt_data, raw_tracker_data, calls, sexc>>
    /\ UNCHANGED <<loadVars, iouVars, idVars>>

LoopLen == ZipLen(raw_data[1].gt_dets, raw_data[1].tracker_dets)

\* lines 86-88: one iteration, the abstract call returning m
Similarity(m) ==
    /\ spc = "loop"
    /\ Len(calls) < LoopLen
    /\ LET k == Len(calls) + 1 IN
       calls' = Append(calls, [gt_dets_t |-> raw_data[1].gt_dets[k],
                               tracker_dets_t |-> raw_data[1].tracker_dets[k],
                               result |-> m])
    /\ similarity_scores' = AppendScore(similarity_scores, m)
    /\ UNCHANGED <<spc, raw_gt_data, raw_tracker_data, raw_data, sexc>>
    /\ UNCHANGED <<loadVars, iouVars, idVars>>

\* line 87: the abstract call raises
SimilarityRaises ==
    /\ spc = "loop"
    /\ Len(calls) < LoopLen
    /\ SeqRaise("calculate_similarities")
    /\ UNCHANGED <<raw_gt_data, raw_tracker_data, raw_data, similarity_scores, calls>>
    /\ UNCHANGED <<loadVars, iouVars, idVars>>

\* lines 89-90
SeqReturn ==
    /\ spc = "loop"
    /\ Len(calls) = LoopLen
    /\ raw_data' = <<("similarity_scores" :> similarity_scores) @@ raw_data[1]>>
    /\ spc' = "returned"
    /\ UNCHANGED <<raw_gt_data, raw_tracker_data, similarity_scores, calls, sexc>>
    /\ UNCHANGED <<loadVars, iouVars, idVars>>

SeqNext ==
    \/ \E r \in GtLoads : LoadGt(r)
    \/ LoadGtRaises
    \/ \E r \in TrackerLoads : LoadTracker(r)
    \/ LoadTrackerRaises
    \/ Merge
    \/ \E m \in Matrices : Similarity(m)
    \/ SimilarityRaises
    \/ SeqReturn

InitSeq == LoadIdle /\ SeqInit /\ IouIdle /\ IdsIdle

SpecSeq == InitSeq /\ [][SeqNext]_vars

-----------------------------------------------------------------------------
(* _calculate_box_ious *)

MaxCoord == 1           \* largest coordinate, width and height of a box

\* a box is <<x0, y0, w, h>> or <<x0, y0, x1, y1>>, as box_format says
Boxes ==
    { <<x, 0, c, d>> : x \in 0..MaxCoord, c \in -1..MaxCoord, d \in -1..1 }

\* shapes (N, M) of the two arrays
Shapes == { <<1, 1>>, <<2, 1>>, <<1, 2>> }

\* box_format tokens, a str being the sequence of its characters
FormatXYWH == <<"x", "y", "w", "h">>
FormatX0Y0X1Y1 == <<"x", "0", "y", "0", "x", "1", "y", "1">>

Formats ==
    { FormatXYWH, FormatX0Y0X1Y1,
      <<"x", "y">>, <<"x", "0", "y", "0">>, <<>>,
      <<"x", "y", "x", "y">>, <<"X", "Y", "W", "H">> }

\* the arguments of a call on arrays of shape (sh[1], 4) and (sh[2], 4)
IouArgSets(sh) ==
    [ bboxes1 : [1..sh[1] -> Boxes],
      bboxes2 : [1..sh[2] -> Boxes],
      box_format : Formats,
      do_ioa : BOOLEAN,
      dtype : {"int64", "float64"} ]

\* `a in b` of two str: a is a substring of b
StrIn(a, b) == \E i \in 0..(Len(b) - Len(a)) : SubSeq(b, i + 1, i + Len(a)) = a

\* line 192
TakenAsXYWH(f) == StrIn(f, FormatXYWH)

\* line 201
Rejected(f) == ~TakenAsXYWH(f) /\ ~StrIn(f, FormatX0Y0X1Y1)

\* lines 194-200: a copy in layout (x0, y0, x1, y1)
ToCorners(boxes) ==
    [ k \in DOMAIN boxes |->
        <<boxes[k][1], boxes[k][2], boxes[k][1] + boxes[k][3], boxes[k][2] + boxes[k][4]>> ]

Minimum(a, b) == IF a <= b THEN a ELSE b
Maximum(a, b) == IF a >= b THEN a ELSE b

\* lines 205-207, for one pair of boxes in corner layout
Intersection(p, q) ==
    Maximum(Minimum(p[3], q[3]) - Maximum(p[1], q[1]), 0)
        * Maximum(Minimum(p[4], q[4]) - Maximum(p[2], q[2]), 0)

\* lines 208 and 215
Area(p) == (p[3] - p[1]) * (p[4] - p[2])

\* a quotient num/den; den = 0 is numpy's division by zero (nan or inf)
Quot(n, d) == [num |-> n, den |-> d]

\* lines 211-212: zeros_like(intersection) has the dtype of the boxes, so the
\* quotients assigned into it are cast to it (an int64 array truncates them)
Ioa(p, q, dtype) ==
    IF Area(p) > 0
    THEN IF dtype = "int64"
         THEN Quot(Intersection(p, q) \div Area(p), 1)
         ELSE Quot(Intersection(p, q), Area(p))
    ELSE Quot(0, 1)

\* line 216
Union(p, q) == Area(p) + Area(q) - Intersection(p, q)

\* lines 217-219
ZeroedIntersection(p, q) ==
    IF Area(p) <= 0 \/ Area(q) <= 0 \/ Union(p, q) <= 0 THEN 0 ELSE Intersection(p, q)

\* line 220
ClampedUnionNot(u) == u

ClampedUnion(u) == IF u <= 0 THEN 1 ELSE u

\* line 221
Iou(p, q) == Quot(ZeroedIntersection(p, q), ClampedUnion(Union(p, q)))

\* lines 204-222: the matrix, row i for bboxes1[i], column j for bboxes2[j]
ScoreMatrix(b1, b2, do_ioa, dtype) ==
    [ i \in DOMAIN b1 |-> [ j \in DOMAIN b2 |->
        IF do_ioa THEN Ioa(b1[i], b2[j], dtype) ELSE Iou(b1[i], b2[j]) ] ]

\* the boxes the scores are computed on (lines 192-204)
Corners(boxes, f) == IF TakenAsXYWH(f) THEN ToCorners(boxes) ELSE boxes

IouInit ==
    /\ ipc = "call"
    /\ \E sh \in Shapes : iargs \in IouArgSets(sh)
    /\ ious = <<>>
    /\ iexc = "none"

\* lines 201-202
IouRaise ==
    /\ ipc = "call"
    /\ Rejected(iargs.box_format)
    /\ iexc' = "Exception"
    /\ ipc' = "raised"
    /\ UNCHANGED <<iargs, ious>>
    /\ UNCHANGED <<loadVars, seqVars, idVars>>

\* lines 192-200 and 204-222
IouReturn ==
    /\ ipc = "call"
    /\ ~Rejected(iargs.box_format)
    /\ ious' = ScoreMatrix(Corners(iargs.bboxes1, iargs.box_format),
                           Corners(iargs.bboxes2, iargs.box_format),
                           iargs.do_ioa, iargs.dtype)
    /\ ipc' = "returned"
    /\ UNCHANGED <<iargs, iexc>>
    /\ UNCHANGED <<loadVars, seqVars, idVars>>

IouNext ==
    \/ IouRaise
    \/ IouReturn

InitIou == LoadIdle /\ SeqIdle /\ IouInit /\ IdsIdle

SpecIou == InitIou /\ [][IouNext]_vars

-----------------------------------------------------------------------------
(* _check_unique_ids *)

MaxSteps == 2           \* timesteps of the checked data

Ids == {5, 6}

\* one timestep's array of ids
IdLists ==
    {<<>>} \cup { <<a>> : a \in Ids } \cup { <<a, b>> : a, b \in Ids } \cup { <<5, 6, 5>> }

\* the argument: gt_ids and tracker_ids are lists over the timesteps
DataSets ==
    UNION { [ num_timesteps : {n}, seq : {"seq-a"},
              gt_ids : [1..n -> IdLists], tracker_ids : [1..n -> IdLists] ] : n \in 0..MaxSteps }

\* lines 231 and 237: the counts of np.unique(ids, return_counts=True)
UniqueCounts(ids) ==
    { Cardinality({ k \in DOMAIN ids : ids[k] = v }) : v \in { ids[k] : k \in DOMAIN ids } }

\* np.max
MaxOf(S) == CHOOSE m \in S : \A x \in S : x <= m

\* lines 230-232 and 236-238: the array is not empty and some count is not 1
Repeats(ids) == Len(ids) > 0 /\ MaxOf(UniqueCounts(ids)) # 1

\* lines 230-232, at timestep time (from 0)
TrackerRepeatsWithGt(d, time) == Repeats(d.tracker_ids[time + 1] \o d.gt_ids[time + 1])

TrackerRepeats(d, time) == Repeats(d.tracker_ids[time + 1])

\* lines 236-238, at timestep time (from 0)
GtRepeats(d, time) == Repeats(d.gt_ids[time + 1])

IdsInit ==
    /\ cpc = "loop"
    /\ data \in DataSets
    /\ t = 0
    /\ cexc = <<>>

\* line 229: zip(gt_ids, tracker_ids) has a timestep left
InLoop ==
    /\ cpc = "loop"
    /\ t < ZipLen(data.gt_ids, data.tracker_ids)

\* lines 229-241: an iteration that raises nothing
CheckStep ==
    /\ InLoop
    /\ ~TrackerRepeats(data, t)
    /\ ~GtRepeats(data, t)
    /\ t' = t + 1
    /\ UNCHANGED <<cpc, data, cexc>>
    /\ UNCHANGED <<loadVars, seqVars, iouVars>>

\* lines 230-235
RaiseTracker ==
    /\ InLoop
    /\ TrackerRepeats(data, t)
    /\ cexc' = <<[stream |-> "tracker", seq |-> data.seq, time |-> t]>>
    /\ cpc' = "raised"
    /\ UNCHANGED <<data, t>>
    /\ UNCHANGED <<loadVars, seqVars, iouVars>>

\* lines 236-241
RaiseGt ==
    /\ InLoop
    /\ ~TrackerRepeats(data, t)
    /\ GtRepeats(data, t)
    /\ cexc' = <<[stream |-> "gt", seq |-> data.seq, time |-> t]>>
    /\ cpc' = "raised"
    /\ UNCHANGED <<data, t>>
    /\ UNCHANGED <<loadVars, seqVars, iouVars>>

\* the loop is over: the function returns None
CheckReturn ==
    /\ cpc = "loop"
    /\ t = ZipLen(data.gt_ids, data.tracker_ids)
    /\ cpc' = "returned"
    /\ UNCHANGED <<data, t, cexc>>
    /\ UNCHANGED <<loadVars, seqVars, iouVars>>

IdsNext ==
    \/ CheckStep
    \/ RaiseTracker
    \/ RaiseGt
    \/ CheckReturn

InitIds == LoadIdle /\ SeqIdle /\ IouIdle /\ IdsInit

SpecIds == InitIds /\ [][IdsNext]_vars

-----------------------------------------------------------------------------
(* Properties of _load_simple_text_file *)

\* the cell is the text of a negative number
IsNegativeNumber(s) == FloatTenths(s) # <<>> /\ FloatTenths(s)[1] < 0

\* the row as the body sees it after line 149
Stripped(raw) == IF StripTrailing(raw) = <<>> THEN raw ELSE StripTrailing(raw)[1]

\* number of times the row object ref is stored in the bucket
Stored(bucket, ref) ==
    LET Places == UNION { { <<ts, k>> : k \in { j \in DOMAIN bucket[ts] : bucket[ts][j] = ref } } :
                          ts \in DOMAIN bucket }
    IN Cardinality(Places)

InBucket(bucket, ref) == \E ts \in DOMAIN bucket : \E k \in DOMAIN bucket[ts] : bucket[ts][k] = ref

\* the input row matches at least one crowd_ignore_filter entry
MatchesIgnore(raw) ==
    \E k \in DOMAIN args.crowd_ignore_filter :
        /\ HasCol(Stripped(raw), args.crowd_ignore_filter[k].col)
        /\ IgnoreMatch(Stripped(raw), args.crowd_ignore_filter[k])

\* the input row passes every valid_filter entry
PassesValid(raw) ==
    \A k \in DOMAIN args.valid_filter :
        /\ HasCol(Stripped(raw), args.valid_filter[k].col)
        /\ Lower(Cell(Stripped(raw), args.valid_filter[k].col)) \in args.valid_filter[k].allow

\* the body has run to its end on row object ref
BodyDone(ref) == ref < Len(orig) \/ (ref = Len(orig) /\ exc = "none")

\* C1: a row that matches no crowd_ignore_filter entry is in the normal bucket
\* only if it passes every valid_filter entry.
C1_ValidFilterExcludes ==
    \A ref \in DOMAIN orig :
        (~MatchesIgnore(orig[ref]) /\ InBucket(read_data, ref)) => PassesValid(orig[ref])

\* C2: a row that matches a crowd_ignore_filter entry is in the ignore bucket
\* once its iteration is over and is never in the normal bucket, whatever
\* valid_filter, remove_negative_ids and convert_filter are.
C2_IgnoreIsolation ==
    \A ref \in DOMAIN orig :
        MatchesIgnore(orig[ref]) =>
            /\ ~InBucket(read_data, ref)
            /\ BodyDone(ref) => InBucket(crowd_ignore_data, ref)

\* C2 witness: the call returned with remove_negative_ids, a valid_filter and a
\* convert_filter in force, having read an ignore-region row that passes
\* valid_filter and has a negative id.
C2_Witness ==
    /\ pc = "returned"
    /\ args.remove_negative_ids
    /\ args.valid_filter # <<>>
    /\ args.convert_filter # <<>>
    /\ \E ref \in DOMAIN orig :
        /\ MatchesIgnore(orig[ref])
        /\ PassesValid(orig[ref])
        /\ IsNegativeNumber(Cell(orig[ref], 1))
        /\ InBucket(crowd_ignore_data, ref)

\* C3: with remove_negative_ids and id_col, after the call returns no row of
\* the normal bucket has a negative number in id_col, and every row matching
\* crowd_ignore_filter is in the ignore bucket.
C3_NoNegativeIds ==
    (pc = "returned" /\ args.remove_negative_ids) =>
        \A ref \in DOMAIN orig :
            /\ InBucket(read_data, ref) => ~IsNegativeNumber(Cell(heap[ref], args.id_col[1]))
            /\ MatchesIgnore(orig[ref]) => InBucket(crowd_ignore_data, ref)

\* C7: when the call has ended, by return or by exception, no handle it
\* opened is still open.
C7_HandlesClosed ==
    pc \in {"returned", "raised"} => (fp # "open" /\ archive # "open")

\* C10: with a non-empty crowd_ignore_filter, when the call returns every row
\* is stored at most once over both buckets, has had convert_filter applied at
\* most once, and is stored under its own time-column token.
C10_StoredOnce ==
    (pc = "returned" /\ args.crowd_ignore_filter # <<>>) =>
        \A ref \in DOMAIN orig :
            /\ Stored(read_data, ref) + Stored(crowd_ignore_data, ref) <= 1
            /\ nconv[ref] <= 1
            /\ \A ts \in DOMAIN read_data :
                 (\E k \in DOMAIN read_data[ts] : read_data[ts][k] = ref)
                    => ts = Cell(Stripped(orig[ref]), args.time_col)
            /\ \A ts \in DOMAIN crowd_ignore_data :
                 (\E k \in DOMAIN crowd_ignore_data[ts] : crowd_ignore_data[ts][k] = ref)
                    => ts = Cell(Stripped(orig[ref]), args.time_col)

-----------------------------------------------------------------------------
(* Properties of get_raw_seq_data *)

CallsMatch(n) ==
    /\ Len(calls) = n
    /\ \A k \in 1..n :
        /\ calls[k].gt_dets_t = raw_data[1].gt_dets[k]
        /\ calls[k].tracker_dets_t = raw_data[1].tracker_dets[k]
        /\ raw_data[1].similarity_scores[k] = calls[k].result

SharedMismatch ==
    /\ raw_gt_data # <<>>
    /\ raw_tracker_data # <<>>
    /\ \/ raw_gt_data[1].num_timesteps # raw_tracker_data[1].num_timesteps
       \/ raw_gt_data[1].seq # raw_tracker_data[1].seq

\* C5 as claimed: when the two loads disagree on a shared field, no merged
\* record is made and the call does not return.
C5_MismatchIsFatal ==
    SharedMismatch => (raw_data = <<>> /\ spc # "returned")

\* C5 amended: the merge raises nothing; the merged record holds the
\* ground-truth load's num_timesteps and seq, also when the tracker load's
\* differ, and the only exceptions the call ends with are those of the
\* abstract calls.
C5_GtSideWins ==
    /\ sexc \in {"none", "load_raw_file", "calculate_similarities"}
    /\ spc = "tracker_loaded" => sexc = "none"
    /\ raw_data # <<>> =>
        /\ raw_data[1].num_timesteps = raw_gt_data[1].num_timesteps
        /\ raw_data[1].seq = raw_gt_data[1].seq
        /\ raw_data[1].gt_dets = raw_gt_data[1].gt_dets
        /\ raw_data[1].tracker_dets = raw_tracker_data[1].tracker_dets

\* C5 witness: the call returned a merged record for loads that disagree on
\* both shared fields.
C5_Witness ==
    /\ spc = "returned"
    /\ raw_gt_data[1].num_timesteps # raw_tracker_data[1].num_timesteps
    /\ raw_gt_data[1].seq # raw_tracker_data[1].seq
    /\ raw_data[1].seq = raw_gt_data[1].seq

-----------------------------------------------------------------------------
(* Properties of _check_unique_ids *)

\* some ID value occurs more than once in the array
HasDuplicate(ids) == \E i, j \in DOMAIN ids : i < j /\ ids[i] = ids[j]

\* some ID value occurs more than once in gt_ids or in tracker_ids at timestep time (from 0)
DuplicateAt(time) ==
    HasDuplicate(data.gt_ids[time + 1]) \/ HasDuplicate(data.tracker_ids[time + 1])

\* C6: the check raises exactly when some timestep of 0..num_timesteps-1 has
\* an ID value more than once in gt_ids or more than once in tracker_ids: it
\* passes no such timestep, it returns only if there is none, and when it
\* raises the reported timestep and stream hold a repeat (an ID shared by the
\* two streams is none).
C6_RaisesIffDuplicate ==
    /\ cpc = "loop" => \A time \in 0..(t - 1) : ~DuplicateAt(time)
    /\ cpc = "returned" => \A time \in 0..(data.num_timesteps - 1) : ~DuplicateAt(time)
    /\ cpc = "raised" =>
        /\ cexc[1].time \in 0..(data.num_timesteps - 1)
        /\ cexc[1].stream = "tracker" => HasDuplicate(data.tracker_ids[cexc[1].time + 1])
        /\ cexc[1].stream = "gt" => HasDuplicate(data.gt_ids[cexc[1].time + 1])
        /\ \A time \in 0..(cexc[1].time - 1) : ~DuplicateAt(time)

\* C6 witness: the check raised for a ground-truth repeat at timestep 1,
\* having passed a timestep 0 where the two streams share an ID.
C6_Witness ==
    /\ cpc = "raised"
    /\ cexc[1].time = 1
    /\ cexc[1].stream = "gt"
    /\ \E i \in DOMAIN data.gt_ids[1] : \E j \in DOMAIN data.tracker_ids[1] :
            data.gt_ids[1][i] = data.tracker_ids[1][j]

-----------------------------------------------------------------------------
(* Properties of _calculate_box_ious *)

\* the area of a box as given, width times height
GivenArea(box, f) ==
    IF TakenAsXYWH(f) THEN box[3] * box[4] ELSE (box[3] - box[1]) * (box[4] - box[2])

\* C8: in both modes and both formats, a pair with a box of non-positive area
\* scores exactly 0, and no quotient of the matrix has a zero divisor.
C8_DegenerateScoresZero ==
    ipc = "returned" =>
        \A i \in DOMAIN iargs.bboxes1 : \A j \in DOMAIN iargs.bboxes2 :
            /\ ious[i][j].den # 0
            /\ (GivenArea(iargs.bboxes1[i], iargs.box_format) <= 0
                \/ GivenArea(iargs.bboxes2[j], iargs.box_format) <= 0)
               => ious[i][j].num = 0

\* C8 witness: an IoU matrix was returned whose first row is for a box of
\* area 0, paired with a box of area 0 (their union is 0) and with a box of
\* positive area.
C8_Witness ==
    /\ ipc = "returned"
    /\ ~iargs.do_ioa
    /\ Len(iargs.bboxes2) = 2
    /\ GivenArea(iargs.bboxes1[1], iargs.box_format) = 0
    /\ GivenArea(iargs.bboxes2[1], iargs.box_format) = 0
    /\ GivenArea(iargs.bboxes2[2], iargs.box_format) > 0
    /\ ious[1][1] = Quot(0, 1)
    /\ ious[1][2].num = 0

\* C9: the call raises for every box_format other than 'xywh' and
\* 'x0y0x1y1', and returns a matrix only for these two.
C9_OnlyTwoFormats ==
    /\ ipc = "returned" => iargs.box_format \in {FormatXYWH, FormatX0Y0X1Y1}
    /\ ipc = "raised" => iargs.box_format \notin {FormatXYWH, FormatX0Y0X1Y1}

====
